---- MODULE Spec2Model ----
(***************************************************************************)
(* rabitdb, src/lib.rs: the greeting routine                               *)
(*                                                                         *)
(*     pub fn greet(name: &str) { println!("Hello, {}!", name); }          *)
(*                                                                         *)
(* println! hands the format arguments "Hello, ", name, "!\n" to the       *)
(* process-wide standard output handle: it takes the handle's lock, writes *)
(* the three pieces in order, releases the lock, and panics with "failed   *)
(* printing to stdout" when a write reports an error.  The model runs      *)
(* greet from one or two calling contexts (threads) over that one stream.  *)
(* Text is a sequence of one-character strings.                            *)
(***************************************************************************)
EXTENDS Naturals, Sequences, FiniteSets

\* ---------------------------------------------------------------- bounds
MaxLen == 1          \* longest name passed to greet
MaxCalls == 3        \* calls of greet made in one run, all contexts together

Alphabet == {"W"}
Contexts == {"c1", "c2"}
NoOne == "none"

RECURSIVE SeqsUpTo(_)
SeqsUpTo(n) ==
    IF n = 0 THEN {<<>>}
    ELSE LET shorter == SeqsUpTo(n - 1)
         IN  shorter \cup {Append(s, c) : s \in {x \in shorter : Len(x) = n - 1}, c \in Alphabet}

\* the values greet's parameter `name: &str` ranges over (no constraint)
Names == SeqsUpTo(MaxLen)

VARIABLES
    active,   \* the calling contexts of this run
    stdout,   \* the characters accepted by the standard output stream
    writer,   \* history: writer[i] is the call (index in hist) that wrote stdout[i]
    lock,     \* holder of the standard output lock, or NoOne
    pc,       \* per context: "idle", "invoked", "writing", "completed", "panicked"
    arg,      \* per context: the name of its current call
    idx,      \* per context: pieces of the format already written
    cur,      \* per context: index in hist of its current call
    hist      \* history: one record per call of greet, in invocation order

vars == <<active, stdout, writer, lock, pc, arg, idx, cur, hist>>

\* ------------------------------------------------------------ the program
\* the literal text of the format string before the placeholder
Hello == <<"H", "e", "l", "l", "o", ",", " ">>

\* the literal text after the placeholder, and println!'s line terminator
Bang == <<"!", "\n">>

PiecesStateful(name) ==
    <<IF Len(hist) > 1 THEN <<"H", "i", ",", " ">> ELSE Hello, name, Bang>>

PiecesSharedBuf(name) == <<Hello, hist[Len(hist)].name, Bang>>

PiecesNoBang(name) == <<Hello, name, <<"\n">>>>

\* format_args_nl!("Hello, {}!", name): the pieces written, in order
Pieces(name) == <<Hello, name, Bang>>

WriteTruncating(out, s) == s

WritePrepending(out, s) == s \o out

\* a successful write of s to the stream
WriteAll(out, s) == out \o s

LockIgnored == TRUE

\* the standard output lock can be taken
LockFree == lock = NoOne

OutcomeRetry(ok) == IF ok THEN "completed" ELSE "invoked"

OutcomeSwallow(ok) == "completed"

OutcomeAlwaysPanic(ok) == "panicked"

\* how the call ends: println! returns on Ok and panics on Err; greet has no
\* return value and handles nothing
Outcome(ok) == IF ok THEN "completed" ELSE "panicked"

Repeat(k, n) == [i \in 1..n |-> k]

TypeOK ==
    /\ active \in SUBSET Contexts
    /\ lock \in Contexts \cup {NoOne}
    /\ pc \in [Contexts -> {"idle", "invoked", "writing", "completed", "panicked"}]
    /\ arg \in [Contexts -> Names]
    /\ idx \in [Contexts -> 0..3]
    /\ cur \in [Contexts -> 0..MaxCalls]
    /\ Len(hist) <= MaxCalls

Init ==
    /\ active \in (SUBSET Contexts) \ {{}}
    /\ stdout = <<>>
    /\ writer = <<>>
    /\ lock = NoOne
    /\ pc = [t \in Contexts |-> "idle"]
    /\ arg = [t \in Contexts |-> <<>>]
    /\ idx = [t \in Contexts |-> 0]
    /\ cur = [t \in Contexts |-> 0]
    /\ hist = <<>>

\* context t calls greet(name)
Call(t, name) ==
    /\ t \in active
    /\ pc[t] \in {"idle", "completed"}
    /\ Len(hist) < MaxCalls
    /\ pc' = [pc EXCEPT ![t] = "invoked"]
    /\ arg' = [arg EXCEPT ![t] = name]
    /\ idx' = [idx EXCEPT ![t] = 0]
    /\ cur' = [cur EXCEPT ![t] = Len(hist) + 1]
    /\ hist' = Append(hist, [ctx |-> t, name |-> name, text |-> <<>>,
                             failed |-> FALSE, outcome |-> "running"])
    /\ UNCHANGED <<active, stdout, writer, lock>>

\* println! takes the standard output lock
Acquire(t) ==
    /\ pc[t] = "invoked"
    /\ LockFree
    /\ lock' = t
    /\ pc' = [pc EXCEPT ![t] = "writing"]
    /\ idx' = [idx EXCEPT ![t] = 0]
    /\ UNCHANGED <<active, stdout, writer, arg, cur, hist>>

\* the next piece is written; after the last one the lock is released and
\* the call returns
WritePiece(t) ==
    /\ pc[t] = "writing"
    /\ idx[t] < Len(Pieces(arg[t]))
    /\ LET piece == Pieces(arg[t])[idx[t] + 1]
           last == idx[t] + 1 = Len(Pieces(arg[t]))
           k == cur[t]
       IN  /\ stdout' = WriteAll(stdout, piece)
           /\ writer' = writer \o Repeat(k, Len(piece))
           /\ idx' = [idx EXCEPT ![t] = idx[t] + 1]
           /\ hist' = [hist EXCEPT ![k].text = hist[k].text \o piece,
                                   ![k].outcome = IF last THEN Outcome(TRUE) ELSE @]
           /\ pc' = [pc EXCEPT ![t] = IF last THEN Outcome(TRUE) ELSE @]
           /\ lock' = IF last THEN NoOne ELSE lock
    /\ UNCHANGED <<active, arg, cur>>

\* the write of the next piece reports an error: nothing is written, the
\* lock guard is dropped and the error reaches println!'s panic
WriteFail(t) ==
    /\ pc[t] = "writing"
    /\ idx[t] < Len(Pieces(arg[t]))
    /\ hist' = [hist EXCEPT ![cur[t]].failed = TRUE,
                            ![cur[t]].outcome = Outcome(FALSE)]
    /\ pc' = [pc EXCEPT ![t] = Outcome(FALSE)]
    /\ lock' = NoOne
    /\ UNCHANGED <<active, stdout, writer, arg, idx, cur>>

Step(t) == Acquire(t) \/ WritePiece(t) \/ WriteFail(t)

Next ==
    \/ \E t \in Contexts, name \in Names : Call(t, name)
    \/ \E t \in Contexts : Acquire(t)
    \/ \E t \in Contexts : WritePiece(t)
    \/ \E t \in Contexts : WriteFail(t)

Spec == Init /\ [][Next]_vars

\* a context that is inside greet keeps running
SpecFair == Spec /\ \A t \in Contexts : WF_vars(Step(t))

\* ------------------------------------------------------------- properties
\* what the documentation promises for one call: "Hello, " + S + "!" + newline
Expected(S) == <<"H", "e", "l", "l", "o", ",", " ">> \o S \o <<"!", "\n">>

IsPrefix(s, t) == Len(s) <= Len(t) /\ SubSeq(t, 1, Len(s)) = s

Calls == DOMAIN hist

Completed(k) == hist[k].outcome = "completed"

Panicked(k) == hist[k].outcome = "panicked"

InCall(t) == pc[t] \in {"invoked", "writing"}

RECURSIVE ConcatGreetings(_)
ConcatGreetings(k) ==
    IF k = 0 THEN <<>> ELSE ConcatGreetings(k - 1) \o Expected(hist[k].name)

\* C1: a single call greet(S) on empty output leaves standard output holding
\* exactly "Hello, " S "!" and one line terminator, and nothing else.
C1_GreetWritesExactly ==
    (Len(hist) = 1 /\ Completed(1)) => stdout = Expected(hist[1].name)

\* the call greet("") has returned and the output is "Hello, !\n"
C1_Witness ==
    /\ Len(hist) = 1
    /\ Completed(1)
    /\ hist[1].name = <<>>
    /\ stdout = <<"H", "e", "l", "l", "o", ",", " ", "!", "\n">>

\* C2: any two calls that returned and were given the same input wrote the
\* same text, whatever calls came before them.
C2_Deterministic ==
    \A j \in Calls, k \in Calls :
        (Completed(j) /\ Completed(k) /\ hist[j].name = hist[k].name)
            => hist[j].text = hist[k].text

\* two returned calls with the same input, the earlier one preceded by a
\* call with another input
C2_Witness ==
    /\ Len(hist) >= 3
    /\ hist[1].name # hist[2].name
    /\ hist[2].name = hist[3].name
    /\ Completed(1) /\ Completed(2) /\ Completed(3)

\* C3: no input is rejected and there is no error outcome: a call whose
\* writes all succeeded never ends in a panic, it returns normally.
C3_NoErrorOutcome ==
    /\ \A k \in Calls : Panicked(k) => hist[k].failed
    /\ \A t \in Contexts : pc[t] = "panicked" => hist[cur[t]].failed

\* a call with the empty name and a call with a non-empty name have both
\* returned normally
C3_Witness ==
    \E j \in Calls, k \in Calls :
        /\ Completed(j) /\ hist[j].name = <<>>
        /\ Completed(k) /\ Len(hist[k].name) = MaxLen

\* C4: under every interleaving each call writes what it would have written
\* running alone: its own greeting once it returned, a prefix of it before.
C4_Independent ==
    \A k \in Calls :
        /\ Completed(k) => hist[k].text = Expected(hist[k].name)
        /\ IsPrefix(hist[k].text, Expected(hist[k].name))

\* two contexts were inside greet at the same time (the call invoked second
\* wrote first) with different names, and both returned
C4_Witness ==
    /\ Len(hist) >= 2
    /\ hist[1].ctx # hist[2].ctx
    /\ hist[1].name # hist[2].name
    /\ Completed(1) /\ Completed(2)
    /\ writer[1] = 2

C6_AppendOnly ==
    [][/\ IsPrefix(stdout, stdout')
       /\ \A t \in Contexts : (InCall(t) /\ InCall(t)') => arg'[t] = arg[t]
       /\ (\A t \in Contexts : ~InCall(t)') => lock' = NoOne]_vars

\* a second call is writing behind the complete greeting of the first
C6_Witness ==
    /\ Len(hist) >= 2
    /\ Completed(1)
    /\ hist[2].text # <<>>
    /\ Len(stdout) > Len(Expected(hist[1].name))

\* C8: after sequential calls greet(n1) .. greet(nk) that all returned,
\* standard output is the concatenation of their greetings in call order.
C8_SequentialConcat ==
    (Cardinality(active) = 1 /\ \A k \in Calls : Completed(k))
        => stdout = ConcatGreetings(Len(hist))

\* one context made three calls, not all with the same name
C8_Witness ==
    /\ Cardinality(active) = 1
    /\ Len(hist) >= 3
    /\ \A k \in Calls : Completed(k)
    /\ hist[1].name # hist[2].name

\* C9: on the shared stream the characters of each call are contiguous, and
\* a call that returned left its whole greeting as one contiguous line.
C9_Contiguous ==
    /\ Len(writer) = Len(stdout)
    /\ \A i \in DOMAIN writer, m \in DOMAIN writer :
          (i + 1 < m /\ writer[i] # writer[i + 1]) => writer[m] # writer[i]
    /\ \A k \in Calls :
          Completed(k) =>
              \E p \in 1..Len(stdout) :
                  LET q == p + Len(Expected(hist[k].name)) - 1
                  IN  /\ q <= Len(stdout)
                      /\ SubSeq(stdout, p, q) = Expected(hist[k].name)
                      /\ \A i \in p..q : writer[i] = k

\* two contexts are inside greet at once: one holds the lock in the middle
\* of its greeting, the other waits
C9_Witness ==
    \E t \in Contexts, u \in Contexts :
        /\ pc[t] = "writing" /\ idx[t] = 1
        /\ pc[u] = "invoked"

\* C10: a failed write is not handled and not reported as a value: the call
\* does not return, its context ends in a panic.
C10_FailurePanics ==
    \A k \in Calls :
        hist[k].failed => Panicked(k) /\ pc[hist[k].ctx] = "panicked"

\* a write failed after part of the greeting was written
C10_Witness ==
    \E k \in Calls : hist[k].failed /\ hist[k].text # <<>>

====
